---- MODULE Spec2Model ----
(***************************************************************************)
(* CRFEntityExtractor (app/bot/nlu/entity_extractors/crf_entity_extractor) *)
(* as a state machine: one extractor object holding its synonym table, and *)
(* the calls made on it.                                                   *)
(*                                                                         *)
(* A Python str is a sequence of one-character strings, so that slicing,   *)
(* lower(), split(" ") and concatenation are computed, not assumed.        *)
(* A Python exception is the record Raise; a normal result v is Ok(v).     *)
(***************************************************************************)
EXTENDS Integers, Sequences, FiniteSets, TLC

(***************************************************************************)
(* Bounds of the model.                                                    *)
(***************************************************************************)
MaxTextLen == 3
MaxTokens == 3
MaxEntities == 2

(***************************************************************************)
(* Python built-ins used by the source.                                    *)
(***************************************************************************)
Min(a, b) == IF a < b THEN a ELSE b

Max(a, b) == IF a < b THEN b ELSE a

Raise == [raised |-> TRUE]

Ok(v) == [raised |-> FALSE, value |-> v]

\* a slice bound k of a sequence of length n, as Python normalises it
ClampIndex(k, n) == IF k < 0 THEN Max(k + n, 0) ELSE Min(k, n)

\* s[lo:hi]
Slice(s, lo, hi) ==
    LET a == ClampIndex(lo, Len(s))
        b == ClampIndex(hi, Len(s))
    IN  IF a >= b THEN <<>> ELSE SubSeq(s, a + 1, b)

\* s[lo:]
SliceFrom(s, lo) == Slice(s, lo, Len(s))

\* s.startswith(c) for a one-character c
startswith(s, c) == Len(s) >= 1 /\ s[1] = c

LowerOf == [c \in {"A", "B"} |-> IF c = "A" THEN "a" ELSE "b"]

IsUpperChar(c) == c \in {"A", "B"}

IsLowerChar(c) == c \in {"a", "b"}

IsCased(c) == IsUpperChar(c) \/ IsLowerChar(c)

IsDigitChar(c) == c \in {"1", "2"}

\* s.lower()
lower(s) == [i \in 1..Len(s) |-> IF IsUpperChar(s[i]) THEN LowerOf[s[i]] ELSE s[i]]

\* s.isupper(): at least one cased character and no lower-case one
isupper(s) ==
    /\ \E i \in 1..Len(s) : IsCased(s[i])
    /\ \A i \in 1..Len(s) : ~IsLowerChar(s[i])

\* s.istitle(): upper case only after uncased, lower case only after cased
istitle(s) ==
    /\ \E i \in 1..Len(s) : IsCased(s[i])
    /\ \A i \in 1..Len(s) :
          LET prevCased == i > 1 /\ IsCased(s[i - 1])
          IN  /\ IsUpperChar(s[i]) => ~prevCased
              /\ IsLowerChar(s[i]) => prevCased

\* s.isdigit()
isdigit(s) == Len(s) >= 1 /\ \A i \in 1..Len(s) : IsDigitChar(s[i])

\* '%s' % b for a bool b
BoolStr(b) == IF b THEN <<"T", "r", "u", "e">> ELSE <<"F", "a", "l", "s", "e">>

RECURSIVE split(_)
\* s.split(" ")
split(s) ==
    IF \A i \in 1..Len(s) : s[i] # " "
    THEN <<s>>
    ELSE LET i == CHOOSE k \in 1..Len(s) :
                      s[k] = " " /\ \A j \in 1..(k - 1) : s[j] # " "
         IN  <<SubSeq(s, 1, i - 1)>> \o split(SubSeq(s, i + 1, Len(s)))

RECURSIVE join(_)
\* " ".join(words)
join(words) ==
    IF words = <<>> THEN <<>>
    ELSE IF Len(words) = 1 THEN words[1]
    ELSE words[1] \o <<" ">> \o join(Tail(words))

\* zip(xs, ys): stops at the shorter of the two
zip(xs, ys) == [i \in 1..Min(Len(xs), Len(ys)) |-> <<xs[i], ys[i]>>]

(***************************************************************************)
(* Labels.                                                                 *)
(***************************************************************************)
O == <<"O">>

BLabel(name) == <<"B", "-">> \o name

ILabel(name) == <<"I", "-">> \o name

(***************************************************************************)
(* The external annotator (spaCy): text -> tokens {text, tag_}. Tokens are *)
(* the maximal runs of non-space characters, in order.                     *)
(***************************************************************************)
TagOf(word) == IF isdigit(word) THEN <<"C", "D">>
               ELSE IF istitle(word) THEN <<"N", "N", "P">>
               ELSE <<"N", "N">>

annotate(text) ==
    LET words == SelectSeq(split(text), LAMBDA w : w # <<>>)
    IN  [i \in 1..Len(words) |-> [text |-> words[i], tag_ |-> TagOf(words[i])]]

(***************************************************************************)
(* Training side: pos_tagger, pos_tag_and_label, sentence_tokenize and the *)
(* body of json2crf.                                                       *)
(***************************************************************************)
pos_tagger(doc) == [i \in 1..Len(doc) |-> <<doc[i].text, doc[i].tag_>>]

pos_tag_and_label(text, doc) ==
    LET tagged_sentence == pos_tagger(doc)
    IN  [i \in 1..Len(tagged_sentence) |->
            <<tagged_sentence[i][1], tagged_sentence[i][2], O>>]

\* sentence_tokenize reads token.text of every element of its argument.
\* json2crf, its only caller, passes slices of example["text"], a str: the
\* elements of a non-empty str are one-character strs, which have no
\* attribute text (AttributeError); the empty str has no element and gives
\* " ".join([]) = "".
sentence_tokenize(doc) ==
    IF doc = <<>> THEN Ok(join(<<>>)) ELSE Raise

\* SetLabel growing the list instead of raising IndexError past its end
SetLabel_append(tagged_example, idx, bio) ==
    LET n == Len(tagged_example)
        pos == IF idx < 0 THEN idx + n ELSE idx
    IN  IF pos < 0 \/ pos >= n
        THEN Ok(Append(tagged_example, <<<<>>, <<>>, bio>>))
        ELSE Ok([tagged_example EXCEPT ![pos + 1][3] = bio])

\* tagged_example[idx][2] = bio, with Python's list indexing
SetLabel(tagged_example, idx, bio) ==
    LET n == Len(tagged_example)
        pos == IF idx < 0 THEN idx + n ELSE idx
    IN  IF pos < 0 \/ pos >= n
        THEN Raise
        ELSE Ok([tagged_example EXCEPT ![pos + 1][3] = bio])

RECURSIVE bio_loop(_, _, _, _, _)
\* lines 237-242: for i in range(1, selection_word_count + 1), from i on.
\* An IndexError leaves the loop with the labels written so far.
bio_loop(tagged_example, name, inverse_word_count, selection_word_count, i) ==
    IF i > selection_word_count
    THEN [raised |-> FALSE, tagged_example |-> tagged_example]
    ELSE LET bio == IF i = 1 THEN BLabel(name) ELSE ILabel(name)
             w == SetLabel(tagged_example, (inverse_word_count + i) - 1, bio)
         IN  IF w.raised
             THEN [raised |-> TRUE, tagged_example |-> tagged_example]
             ELSE bio_loop(w.value, name, inverse_word_count,
                           selection_word_count, i + 1)

\* lines 220-245: the try block for one entity and its bare except.
\* The result is the tagged example afterwards and whether the except
\* clause ran (the entity was skipped).
apply_entity(text, tagged_example, ent) ==
    LET begin_index == ent.begin
        end_index == ent.end
        inverse_selection == sentence_tokenize(Slice(text, 0, begin_index - 1))
        selection == sentence_tokenize(Slice(text, begin_index, end_index))
    IN  IF inverse_selection.raised \/ selection.raised
        THEN [raised |-> TRUE, tagged_example |-> tagged_example]
        ELSE bio_loop(tagged_example, ent.name,
                      Len(split(inverse_selection.value)),
                      Len(split(selection.value)), 1)

\* lines 117-131
sent_to_labels(sent) == [i \in 1..Len(sent) |-> sent[i][3]]

sent_to_tokens(sent) == [i \in 1..Len(sent) |-> sent[i][1]]

(***************************************************************************)
(* Feature extraction. A feature string is kept as its three parts: the    *)
(* window prefix ("", "-1:" or "+1:"), the feature name up to and          *)
(* including "=", and the value appended to it. The literals "bias", "BOS" *)
(* and "EOS" have an empty value.                                          *)
(***************************************************************************)
Feature(window, name, value) == [window |-> window, name |-> name, value |-> value]

Literal(name) == Feature("", name, <<>>)

\* sent is 0-indexed in the source: sent[i] is At(sent, i) here
At(sent, i) == sent[i + 1]

\* lines 70-80: the features of the token itself
word_features(word, postag) ==
    << Literal("bias"),
       Feature("", "word.lower=", lower(word)),
       Feature("", "word[-3:]=", SliceFrom(word, -3)),
       Feature("", "word[-2:]=", SliceFrom(word, -2)),
       Feature("", "word.isupper=", BoolStr(isupper(word))),
       Feature("", "word.istitle=", BoolStr(istitle(word))),
       Feature("", "word.isdigit=", BoolStr(isdigit(word))),
       Feature("", "postag=", postag),
       Feature("", "postag[:2]=", Slice(postag, 0, 2)) >>

\* lines 84-90 and 97-103: the features of a neighbour (word1, postag1)
neighbour_features(window, word1, postag1) ==
    << Feature(window, "word.lower=", lower(word1)),
       Feature(window, "word.istitle=", BoolStr(istitle(word1))),
       Feature(window, "word.isupper=", BoolStr(isupper(word1))),
       Feature(window, "postag=", postag1),
       Feature(window, "postag[:2]=", Slice(postag1, 0, 2)) >>

\* extract_features with the first branch testing i > 1 instead of i > 0
extract_features_late(sent, i) ==
    word_features(At(sent, i)[1], At(sent, i)[2])
    \o (IF i > 1
        THEN neighbour_features("-1:", At(sent, i - 1)[1], At(sent, i - 1)[2])
        ELSE << Literal("BOS") >>)
    \o (IF i < Len(sent) - 1
        THEN neighbour_features("+1:", At(sent, i + 1)[1], At(sent, i + 1)[2])
        ELSE << Literal("EOS") >>)

extract_features(sent, i) ==
    LET word == At(sent, i)[1]
        postag == At(sent, i)[2]
        features == word_features(word, postag)
        before ==
            IF i > 0
            THEN neighbour_features("-1:", At(sent, i - 1)[1], At(sent, i - 1)[2])
            ELSE << Literal("BOS") >>
        after ==
            IF i < Len(sent) - 1
            THEN neighbour_features("+1:", At(sent, i + 1)[1], At(sent, i + 1)[2])
            ELSE << Literal("EOS") >>
    IN  features \o before \o after

sent_to_features(sent) == [k \in 1..Len(sent) |-> extract_features(sent, k - 1)]

(***************************************************************************)
(* Decoding: crf2json. A dict is a function on its set of keys.            *)
(***************************************************************************)
EmptyDict == [k \in {} |-> <<>>]

Put(d, k, v) == [x \in (DOMAIN d) \cup {k} |-> IF x = k THEN v ELSE d[x]]

\* crf2json_step without the test "label in labels": an "I-" label whose
\* name has no "B-" before it starts a value of its own
crf2json_step_orphan(acc, s, tp) ==
    IF tp # O
    THEN LET label == SliceFrom(tp, 2)
         IN  IF startswith(tp, "B")
             THEN [labeled |-> Put(acc.labeled, label, s),
                   labels |-> acc.labels \cup {label}]
             ELSE IF startswith(tp, "I")
             THEN [labeled |-> Put(acc.labeled, label,
                                   IF label \in DOMAIN acc.labeled
                                   THEN acc.labeled[label] \o <<" ">> \o s
                                   ELSE <<" ">> \o s),
                   labels |-> acc.labels]
             ELSE acc
    ELSE acc

\* lines 167-173: the body of the loop for one pair (s, tp)
crf2json_step(acc, s, tp) ==
    IF tp # O
    THEN LET label == SliceFrom(tp, 2)
         IN  IF startswith(tp, "B")
             THEN [labeled |-> Put(acc.labeled, label, s),
                   labels |-> acc.labels \cup {label}]
             ELSE IF startswith(tp, "I") /\ label \in acc.labels
             THEN [labeled |-> Put(acc.labeled, label,
                                   acc.labeled[label] \o <<" ">> \o s),
                   labels |-> acc.labels]
             ELSE acc
    ELSE acc

RECURSIVE crf2json_loop(_, _, _)
crf2json_loop(tagged_sentence, k, acc) ==
    IF k > Len(tagged_sentence) THEN acc
    ELSE crf2json_loop(tagged_sentence, k + 1,
             crf2json_step(acc, tagged_sentence[k][1], tagged_sentence[k][2]))

crf2json(tagged_sentence) ==
    crf2json_loop(tagged_sentence, 1, [labeled |-> EmptyDict, labels |-> {}]).labeled

(***************************************************************************)
(* Synonym replacement. The method reads self.synonyms and writes the dict *)
(* it was given; its effect is the pair of both objects afterwards.        *)
(***************************************************************************)
\* replace_synonyms with "+=" in place of "=" at line 58
replace_synonyms_concat(self_synonyms, entities) ==
    [synonyms |-> self_synonyms,
     entities |-> [entity \in DOMAIN entities |->
                      LET entity_value == entities[entity]
                      IN  IF lower(entity_value) \in DOMAIN self_synonyms
                          THEN entity_value \o self_synonyms[lower(entity_value)]
                          ELSE entity_value]]

\* replace_synonyms looking the value up as it is, without lower()
replace_synonyms_cased(self_synonyms, entities) ==
    [synonyms |-> self_synonyms,
     entities |-> [entity \in DOMAIN entities |->
                      LET entity_value == entities[entity]
                      IN  IF entity_value \in DOMAIN self_synonyms
                          THEN self_synonyms[entity_value]
                          ELSE entity_value]]

\* replace_synonyms recording every value it could not resolve in the table
replace_synonyms_learn(self_synonyms, entities) ==
    LET missed == {lower(entities[e]) : e \in DOMAIN entities} \ DOMAIN self_synonyms
    IN  [synonyms |-> [k \in (DOMAIN self_synonyms) \cup missed |->
                          IF k \in DOMAIN self_synonyms
                          THEN self_synonyms[k]
                          ELSE CHOOSE v \in {entities[e] : e \in DOMAIN entities} :
                                   lower(v) = k],
         entities |-> [entity \in DOMAIN entities |->
                          LET entity_value == entities[entity]
                          IN  IF lower(entity_value) \in DOMAIN self_synonyms
                              THEN self_synonyms[lower(entity_value)]
                              ELSE entity_value]]

replace_synonyms(self_synonyms, entities) ==
    [synonyms |-> self_synonyms,
     entities |-> [entity \in DOMAIN entities |->
                      LET entity_value == entities[entity]
                      IN  IF lower(entity_value) \in DOMAIN self_synonyms
                          THEN self_synonyms[lower(entity_value)]
                          ELSE entity_value]]

(***************************************************************************)
(* predict. The tagger is external: whether its model file opens, and the  *)
(* label sequence it returns for the features, are inputs.                 *)
(***************************************************************************)
predict(self_synonyms, model_opens, doc, tagger_labels) ==
    LET words == [i \in 1..Len(doc) |-> doc[i].text]
        tagged_token == pos_tagger(doc)
        features == sent_to_features(tagged_token)
    IN  IF ~model_opens
        THEN [synonyms |-> self_synonyms, result |-> Raise]
        ELSE LET predicted_labels == tagger_labels
                 extracted_entities == crf2json(zip(words, predicted_labels))
                 r == replace_synonyms(self_synonyms, extracted_entities)
             IN  [synonyms |-> r.synonyms, result |-> Ok(r.entities)]

(***************************************************************************)
(* Inputs of the calls.                                                    *)
(***************************************************************************)
SeqsUpTo(S, n) == UNION {[1..k -> S] : k \in 0..n}

PartialFunctions(K, V) == UNION {[D -> V] : D \in SUBSET K}

\* texts of training examples
TextChars == {"a", " "}

Texts == SeqsUpTo(TextChars, MaxTextLen)

Names == {<<"x">>, <<"y">>}

\* begin / end of an annotation: inside the text, negative, and past its end
Offsets == (0 - MaxTextLen)..(MaxTextLen + 1)

Entities == [name : Names, begin : Offsets, end : Offsets]

\* tokens of a document handed to predict or to the feature extractor
Words == {<<"a">>, <<"A", "b">>, <<"1", "2">>}

Docs == SeqsUpTo({[text |-> w, tag_ |-> TagOf(w)] : w \in Words}, MaxTokens)

Labels == {O} \cup {BLabel(n) : n \in Names} \cup {ILabel(n) : n \in Names}

\* labels the tagger returns in predict
TaggerLabels == {O, BLabel(<<"x">>), ILabel(<<"x">>)}

\* (token, label) pairs handed to crf2json
TaggedTokens == {<<"a">>, <<"A", "b">>} \X Labels

\* synonym tables: lower-cased keys, canonical values
SynonymKeys == {<<"a">>, <<"a", "b">>}

Canonical == {<<"a">>, <<"A", "b">>, <<"b">>}

SynonymTables == PartialFunctions(SynonymKeys, Canonical)

\* entity maps handed to replace_synonyms
EntityValues == {<<"a">>, <<"A">>, <<"A", "b">>, <<"b">>}

EntityMaps == PartialFunctions(Names, EntityValues)

(***************************************************************************)
(* State.                                                                  *)
(*   synonyms        self.synonyms of the extractor                        *)
(*   pc              "idle"; inside json2crf: "json2crf_examples" (head of *)
(*                   the loop over examples), "json2crf_entities" (head of *)
(*                   the loop over entities), "json2crf_entity_done" (end  *)
(*                   of one iteration of it); "returned"                   *)
(*   op, arg, ret    the call in progress or returned last, its argument   *)
(*                   and its result                                        *)
(*   example         json2crf: the example being processed                 *)
(*   tagged_example  json2crf: its labeled record                          *)
(*   n_entities      json2crf: entities of this example processed so far   *)
(*   entity          json2crf: the entity of the iteration that just ended *)
(*   tagged_before   json2crf: tagged_example when that iteration began    *)
(*   skipped         json2crf: whether its except clause ran               *)
(*   appended        json2crf: labeled_examples is not empty; its last     *)
(*                   record is then tagged_example                         *)
(***************************************************************************)
VARIABLES synonyms, pc, op, arg, ret, example, tagged_example, n_entities,
          entity, tagged_before, skipped, appended

vars == <<synonyms, pc, op, arg, ret, example, tagged_example, n_entities,
          entity, tagged_before, skipped, appended>>

call_vars == <<op, arg, ret>>

example_vars == <<example, tagged_example, n_entities, appended>>

iteration_vars == <<entity, tagged_before, skipped>>

json2crf_vars == <<example_vars, iteration_vars>>

NoExample == [text |-> <<>>, spacy_doc |-> <<>>]

NoEntity == [name |-> <<>>, begin |-> 0, end |-> 0]

\* __init__(self, synonyms=[]): the table given, or the empty default
Init ==
    /\ synonyms \in SynonymTables
    /\ pc = "idle"
    /\ op = "none"
    /\ arg = <<>>
    /\ ret = <<>>
    /\ example = NoExample
    /\ tagged_example = <<>>
    /\ n_entities = 0
    /\ entity = NoEntity
    /\ tagged_before = <<>>
    /\ skipped = FALSE
    /\ appended = FALSE

(***************************************************************************)
(* json2crf, one loop iteration at a time. The elements of training_data   *)
(* and of example["entities"] are drawn when the loops reach them; an      *)
(* example has at most MaxEntities entities.                               *)
(***************************************************************************)
\* line 212: labeled_examples = []
Json2crfCall ==
    /\ pc = "idle"
    /\ pc' = "json2crf_examples"
    /\ op' = "json2crf"
    /\ arg' = <<>>
    /\ ret' = <<>>
    /\ UNCHANGED <<synonyms, json2crf_vars>>

\* lines 214-216: the next example, and its record labeled "O"
Json2crfExample ==
    /\ pc = "json2crf_examples"
    /\ \E text \in Texts :
          LET doc == annotate(text)
          IN  /\ example' = [text |-> text, spacy_doc |-> doc]
              /\ tagged_example' = pos_tag_and_label(text, doc)
    /\ n_entities' = 0
    /\ pc' = "json2crf_entities"
    /\ UNCHANGED <<synonyms, call_vars, appended, iteration_vars>>

\* lines 219-245: one iteration of the loop over the entities
Json2crfEntity ==
    /\ pc = "json2crf_entities"
    /\ n_entities < MaxEntities
    /\ \E ent \in Entities :
          LET r == apply_entity(example.text, tagged_example, ent)
          IN  /\ tagged_example' = r.tagged_example
              /\ skipped' = r.raised
              /\ entity' = ent
    /\ tagged_before' = tagged_example
    /\ n_entities' = n_entities + 1
    /\ pc' = "json2crf_entity_done"
    /\ UNCHANGED <<synonyms, call_vars, example, appended>>

\* line 219: back to the head of the loop; the iteration's locals are dead
Json2crfNextEntity ==
    /\ pc = "json2crf_entity_done"
    /\ pc' = "json2crf_entities"
    /\ entity' = NoEntity
    /\ tagged_before' = <<>>
    /\ skipped' = FALSE
    /\ UNCHANGED <<synonyms, call_vars, example_vars>>

\* line 247: labeled_examples.append(tagged_example)
Json2crfAppend ==
    /\ pc = "json2crf_entities"
    /\ appended' = TRUE
    /\ pc' = "json2crf_examples"
    /\ UNCHANGED <<synonyms, call_vars, example, tagged_example, n_entities,
                   iteration_vars>>

\* line 248: return labeled_examples (here: its last record, if any)
Json2crfReturn ==
    /\ pc = "json2crf_examples"
    /\ pc' = "returned"
    /\ ret' = IF appended THEN <<tagged_example>> ELSE <<>>
    /\ UNCHANGED <<synonyms, op, arg, json2crf_vars>>

(***************************************************************************)
(* The other calls, each as one step.                                      *)
(***************************************************************************)
Crf2json ==
    /\ pc = "idle"
    /\ op' = "crf2json"
    /\ \E tagged_sentence \in SeqsUpTo(TaggedTokens, MaxTokens) :
          /\ arg' = tagged_sentence
          /\ ret' = crf2json(tagged_sentence)
    /\ pc' = "returned"
    /\ UNCHANGED <<synonyms, json2crf_vars>>

ReplaceSynonyms ==
    /\ pc = "idle"
    /\ op' = "replace_synonyms"
    /\ \E entities \in EntityMaps :
          LET r == replace_synonyms(synonyms, entities)
          IN  /\ arg' = entities
              /\ synonyms' = r.synonyms
              /\ ret' = r.entities
    /\ pc' = "returned"
    /\ UNCHANGED json2crf_vars

SentToFeatures ==
    /\ pc = "idle"
    /\ op' = "sent_to_features"
    /\ \E doc \in Docs :
          /\ arg' = pos_tagger(doc)
          /\ ret' = sent_to_features(pos_tagger(doc))
    /\ pc' = "returned"
    /\ UNCHANGED <<synonyms, json2crf_vars>>

Predict ==
    /\ pc = "idle"
    /\ op' = "predict"
    /\ \E doc \in Docs, model_opens \in BOOLEAN :
          \E tagger_labels \in IF model_opens
                                THEN SeqsUpTo(TaggerLabels, MaxTokens)
                                ELSE {<<>>} :
             LET r == predict(synonyms, model_opens, doc, tagger_labels)
             IN  /\ arg' = [model_opens |-> model_opens, doc |-> doc,
                            tagger_labels |-> tagger_labels]
                 /\ synonyms' = r.synonyms
                 /\ ret' = r.result
    /\ pc' = "returned"
    /\ UNCHANGED json2crf_vars

\* the caller is done with the result; the extractor is ready for a new call
Return ==
    /\ pc = "returned"
    /\ pc' = "idle"
    /\ op' = "none"
    /\ arg' = <<>>
    /\ ret' = <<>>
    /\ example' = NoExample
    /\ tagged_example' = <<>>
    /\ n_entities' = 0
    /\ entity' = NoEntity
    /\ tagged_before' = <<>>
    /\ skipped' = FALSE
    /\ appended' = FALSE
    /\ UNCHANGED synonyms

Next ==
    \/ Json2crfCall
    \/ Json2crfExample
    \/ Json2crfEntity
    \/ Json2crfNextEntity
    \/ Json2crfAppend
    \/ Json2crfReturn
    \/ Crf2json
    \/ ReplaceSynonyms
    \/ SentToFeatures
    \/ Predict
    \/ Return

Spec == Init /\ [][Next]_vars

(***************************************************************************)
(* Properties.                                                             *)
(***************************************************************************)
InExample == op = "json2crf" /\ pc \in {"json2crf_entities", "json2crf_entity_done"}

EntityDone == op = "json2crf" /\ pc = "json2crf_entity_done"

Returned(name) == op = name /\ pc = "returned"

IsSpace(c) == c = " "

\* "O", or ^(B|I)-\S+$
ValidLabel(l) ==
    \/ l = O
    \/ /\ Len(l) >= 3
       /\ l[1] \in {"B", "I"}
       /\ l[2] = "-"
       /\ \A k \in 3..Len(l) : ~IsSpace(l[k])

RecordMatchesDoc(record, doc) ==
    /\ Len(record) = Len(doc)
    /\ \A i \in 1..Len(doc) :
          /\ record[i][1] = doc[i].text
          /\ record[i][2] = doc[i].tag_
          /\ ValidLabel(record[i][3])

FullyInside(text, ent) ==
    1 <= ent.begin /\ ent.begin < ent.end /\ ent.end <= Len(text)

prefix_token_count(text, ent) == Len(split(Slice(text, 0, ent.begin - 1)))

span_token_count(text, ent) == Len(split(Slice(text, ent.begin, ent.end)))

\* C2: for an entity fully inside the text whose covered token indices
\* prefix_token_count .. prefix_token_count + span_token_count - 1 exist,
\* json2crf labels token prefix_token_count "B-<name>" and the following
\* span_token_count - 1 tokens "I-<name>" (token indices from 0).
C2_SpanLabelled ==
    (/\ EntityDone
     /\ FullyInside(example.text, entity)
     /\ prefix_token_count(example.text, entity)
          + span_token_count(example.text, entity) - 1 < Len(tagged_example))
    => LET first == prefix_token_count(example.text, entity)
           count == span_token_count(example.text, entity)
       IN  /\ At(tagged_example, first)[3] = BLabel(entity.name)
           /\ \A k \in 1..(count - 1) :
                 At(tagged_example, first + k)[3] = ILabel(entity.name)

\* the entity covers whole tokens separated by single spaces
Clean(text, ent) ==
    /\ 0 <= ent.begin /\ ent.begin < ent.end /\ ent.end <= Len(text)
    /\ ~IsSpace(text[ent.begin + 1])
    /\ ~IsSpace(text[ent.end])
    /\ ent.begin > 0 => IsSpace(text[ent.begin])
    /\ ent.end < Len(text) => IsSpace(text[ent.end + 1])
    /\ \A k \in (ent.begin + 1)..(ent.end - 1) :
          ~(IsSpace(text[k]) /\ IsSpace(text[k + 1]))

\* C3: round trip -- for a sentence whose only annotation is clean and
\* inside the text, decoding the labels of json2crf with crf2json (each
\* token text paired with its label) gives, for the annotated name, exactly
\* the covered text text[begin:end].
C3_RoundTrip ==
    (EntityDone /\ n_entities = 1 /\ Clean(example.text, entity))
    => crf2json(zip(sent_to_tokens(tagged_example), sent_to_labels(tagged_example)))
         = [n \in {entity.name} |-> Slice(example.text, entity.begin, entity.end)]

\* begin or end negative, out of range of the text, or a covered token
\* index beyond the tokens of the sentence
InvalidSpan(text, ent, n_tokens) ==
    \/ ent.begin < 0
    \/ ent.end < 0
    \/ ent.begin > Len(text)
    \/ ent.end > Len(text)
    \/ prefix_token_count(text, ent) + span_token_count(text, ent) - 1 >= n_tokens

\* C4: an annotation with an invalid span is dropped as a whole: it changes
\* no label of the sentence.
C4_InvalidDropped ==
    (EntityDone /\ InvalidSpan(example.text, entity, Len(tagged_before)))
    => tagged_example = tagged_before

\* C5: when the tagger returns a label sequence of another length than the
\* token sequence, predict fails and returns no entity map.
C5_LengthMismatchFails ==
    (/\ Returned("predict")
     /\ arg.model_opens
     /\ Len(arg.tagger_labels) # Len(arg.doc))
    => ret.raised

LabelsOf(tagged_sentence) ==
    {tagged_sentence[i][2] : i \in 1..Len(tagged_sentence)}

BPositions(tagged_sentence, name) ==
    {i \in 1..Len(tagged_sentence) : tagged_sentence[i][2] = BLabel(name)}

LastB(tagged_sentence, name) ==
    CHOOSE i \in BPositions(tagged_sentence, name) :
        \A j \in BPositions(tagged_sentence, name) : j <= i

RECURSIVE Continuation(_, _, _)
\* " " + token for every "I-<name>" from position i on
Continuation(tagged_sentence, name, i) ==
    IF i > Len(tagged_sentence) THEN <<>>
    ELSE (IF tagged_sentence[i][2] = ILabel(name)
          THEN <<" ">> \o tagged_sentence[i][1]
          ELSE <<>>)
         \o Continuation(tagged_sentence, name, i + 1)

\* what the fold of the claim leaves: a key for every name with a "B-"
\* label; its value is the token of the last "B-<name>" followed by
\* " " + token for every later "I-<name>"
Decoded(tagged_sentence) ==
    [name \in {n \in Names : BLabel(n) \in LabelsOf(tagged_sentence)} |->
        tagged_sentence[LastB(tagged_sentence, name)][1]
        \o Continuation(tagged_sentence, name, LastB(tagged_sentence, name) + 1)]

\* C6: crf2json returns the result of the single-pass fold: "O" changes
\* nothing, "B-<name>" sets the value of name to the token, "I-<name>"
\* appends " " + token if name was seen before and is dropped otherwise;
\* the keys are exactly the names that occurred with a "B-" label.
C6_Crf2jsonIsFold ==
    Returned("crf2json") => ret = Decoded(arg)

C6_Witness ==
    /\ Returned("crf2json")
    /\ \E i \in 1..Len(arg) :
          /\ arg[i][2] = ILabel(<<"y">>)
          /\ \A j \in 1..(i - 1) : arg[j][2] # BLabel(<<"y">>)
    /\ \E i \in 1..(Len(arg) - 1) :
          arg[i][2] = BLabel(<<"x">>) /\ arg[i + 1][2] = ILabel(<<"x">>)

\* C7 as stated: applying replace_synonyms to its own result changes nothing,
\* for every table and every entity map.
C7_Idempotent ==
    Returned("replace_synonyms")
    => replace_synonyms(synonyms, ret).entities = ret

\* no canonical form, lower-cased, is a key mapped to another form
ClosedTable(table) ==
    \A k \in DOMAIN table :
        lower(table[k]) \in DOMAIN table => table[lower(table[k])] = table[k]

\* C7 as amended: replace_synonyms is idempotent for every table in which
\* no canonical form, lower-cased, is a key mapped to a different form.
C7_IdempotentOnClosedTables ==
    (Returned("replace_synonyms") /\ ClosedTable(synonyms))
    => replace_synonyms(synonyms, ret).entities = ret

C7_Witness ==
    /\ Returned("replace_synonyms")
    /\ ClosedTable(synonyms)
    /\ \E k \in DOMAIN synonyms : lower(synonyms[k]) \in DOMAIN synonyms
    /\ \E n \in DOMAIN arg : ret[n] # arg[n]

\* c is d, or the upper-case letter of d
FoldsTo(c, d) ==
    \/ c = d /\ c \notin {"A", "B"}
    \/ <<c, d>> \in {<<"A", "a">>, <<"B", "b">>}

\* the value v is the key k up to the case of its letters
MatchesKey(v, k) ==
    Len(v) = Len(k) /\ \A i \in 1..Len(v) : FoldsTo(v[i], k[i])

\* C8: replace_synonyms returns a map with the same entity names; a value
\* that is a key of the table up to case is replaced by the table's entry
\* for that key, every other value is unchanged.
C8_ReplaceByLowerCasedKey ==
    Returned("replace_synonyms")
    => /\ DOMAIN ret = DOMAIN arg
       /\ \A n \in DOMAIN arg :
             IF \E k \in DOMAIN synonyms : MatchesKey(arg[n], k)
             THEN \A k \in DOMAIN synonyms :
                     MatchesKey(arg[n], k) => ret[n] = synonyms[k]
             ELSE ret[n] = arg[n]

C8_Witness ==
    /\ Returned("replace_synonyms")
    /\ \E n \in DOMAIN arg :
          /\ arg[n] # lower(arg[n])
          /\ lower(arg[n]) \in DOMAIN synonyms
          /\ ret[n] = synonyms[lower(arg[n])]
    /\ \E n \in DOMAIN arg : lower(arg[n]) \notin DOMAIN synonyms

HasLiteral(features, name) ==
    \E k \in 1..Len(features) : features[k] = Literal(name)

InWindow(features, window) ==
    {k \in 1..Len(features) : features[k].window = window}

\* C9: for n >= 1 tokens sent_to_features returns n feature lists; the
\* first has "BOS" and no "-1:" feature, the last has "EOS" and no "+1:"
\* feature, every token but the first has five "-1:" features and no "BOS",
\* every token but the last has five "+1:" features and no "EOS".
C9_BoundaryMarkers ==
    (Returned("sent_to_features") /\ Len(arg) >= 1)
    => /\ Len(ret) = Len(arg)
       /\ \A t \in 1..Len(ret) :
             /\ IF t = 1
                THEN HasLiteral(ret[t], "BOS") /\ InWindow(ret[t], "-1:") = {}
                ELSE ~HasLiteral(ret[t], "BOS")
                     /\ Cardinality(InWindow(ret[t], "-1:")) = 5
             /\ IF t = Len(ret)
                THEN HasLiteral(ret[t], "EOS") /\ InWindow(ret[t], "+1:") = {}
                ELSE ~HasLiteral(ret[t], "EOS")
                     /\ Cardinality(InWindow(ret[t], "+1:")) = 5

C9_Witness ==
    Returned("sent_to_features") /\ Len(arg) >= 3

\* C10: no step of any call changes the synonym table of the extractor.
C10_SynonymsNeverModified == [][synonyms' = synonyms]_vars

C10_Witness ==
    /\ Returned("predict")
    /\ ~ret.raised
    /\ synonyms # EmptyDict
    /\ ret.value # crf2json(zip([i \in 1..Len(arg.doc) |-> arg.doc[i].text],
                                arg.tagger_labels))

====
